---- MODULE Spec2Model ----
(***************************************************************************)
(* Model of the BlinkAi dashboard core: the authentication gate            *)
(* (src/middleware/auth.js) and the statistics endpoint GET /api/stats     *)
(* (src/server.js) over the search_queries record store.                   *)
(***************************************************************************)
EXTENDS Integers, Sequences, FiniteSets, TLC

(***************************************************************************)
(* Bounds of the model.                                                    *)
(***************************************************************************)
\* number of initializeAdminUser calls explored
MaxInit == 2
\* number of records ingested into the store in Spec
MaxRecords == 3
\* number of records of the larger stores of SpecRecent
MaxRecent == 12
\* shutdown triggers a process receives
MaxTriggers == 2
\* the largest retries argument of testConnection
MaxRetries == 3
\* rows inserted by other connections while requests are being handled
MaxWrites == 2
\* RATE_LIMIT_MAX_REQUESTS of the environment
RateLimitMaxRequests == 3

(***************************************************************************)
(* Authentication gate: identities and credentials.                        *)
(***************************************************************************)
\* values of process.env.ADMIN_EMAIL / ADMIN_PASSWORD; "" is unset or empty
Emails == {"", "a@x", "b@x"}
Passwords == {"", "pw1", "pw2"}
\* salts argon2.hash may draw
Salts == {"s1", "s2"}

\* the digest argon2 computes for a password under a salt (collision free)
Digest(salt, password) == <<salt, password>>

\* argon2.hash(password): an encoded hash carrying its salt
Argon2Hash(salt, password) == [salt |-> salt, digest |-> Digest(salt, password)]

\* argon2.verify(hash, password): recomputes the digest under the hash's salt;
\* fault is an internal failure of the primitive, which makes it throw
Argon2Verify(hash, password, fault) ==
  IF fault THEN "throw"
  ELSE IF Digest(hash.salt, password) = hash.digest THEN "valid" ELSE "invalid"

\* null, as returned by authenticate
NoMatch == [match |-> FALSE]

\* the value of a call that was never made
NoCall == [called |-> FALSE]

\* adminUsers.find(u => u.email === email): index of the first such user, 0 if none
RECURSIVE FindFrom(_, _, _)
FindFrom(users, email, i) ==
  IF i > Len(users) THEN 0
  ELSE IF users[i].email = email THEN i
  ELSE FindFrom(users, email, i + 1)

FindUser(users, email) == FindFrom(users, email, 1)

\* authenticate that accepts any password for a known email
AuthenticateMutEmailOnly(users, email, password, fault) ==
  LET idx == FindUser(users, email)
  IN IF idx = 0 THEN [verify |-> "skipped", result |-> NoMatch]
     ELSE [verify |-> "valid",
           result |-> [match |-> TRUE, email |-> users[idx].email, role |-> users[idx].role]]

\* authenticate that tells a wrong password from an unknown email
AuthenticateMutTellsReason(users, email, password, fault) ==
  LET idx == FindUser(users, email)
  IN IF idx = 0 THEN [verify |-> "skipped", result |-> NoMatch]
     ELSE LET v == Argon2Verify(users[idx].password, password, fault)
          IN [verify |-> v,
              result |-> IF v = "valid"
                         THEN [match |-> TRUE, email |-> users[idx].email, role |-> users[idx].role]
                         ELSE IF v = "invalid" THEN [match |-> FALSE, reason |-> "password"]
                         ELSE NoMatch]

\* an error raised to the caller
Raised == [raised |-> TRUE]

\* authenticate without the try/catch around argon2.verify
AuthenticateMutNoCatch(users, email, password, fault) ==
  LET idx == FindUser(users, email)
  IN IF idx = 0 THEN [verify |-> "skipped", result |-> NoMatch]
     ELSE LET v == Argon2Verify(users[idx].password, password, fault)
          IN [verify |-> v,
              result |-> IF v = "valid"
                         THEN [match |-> TRUE, email |-> users[idx].email, role |-> users[idx].role]
                         ELSE IF v = "throw" THEN Raised ELSE NoMatch]

\* authenticate(email, password) over the adminUsers collection
authenticate(users, email, password, fault) ==
  LET idx == FindUser(users, email)
  IN IF idx = 0 THEN [verify |-> "skipped", result |-> NoMatch]
     ELSE LET v == Argon2Verify(users[idx].password, password, fault)
          IN [verify |-> v,
              result |-> IF v = "valid"
                         THEN [match |-> TRUE, email |-> users[idx].email, role |-> users[idx].role]
                         ELSE NoMatch]

\* initializeAdminUser that only requires the email
InitializeAdminUserMutEmailOnly(users, email, password, salt) ==
  IF email = ""
  THEN [threw |-> TRUE, users |-> users]
  ELSE [threw |-> FALSE,
        users |-> Append(users, [email |-> email,
                                 password |-> Argon2Hash(salt, password),
                                 role |-> "admin"])]

\* initializeAdminUser() with ADMIN_EMAIL = email and ADMIN_PASSWORD = password ("" is
\* unset or empty): whether it threw, and the adminUsers array afterwards
initializeAdminUser(users, email, password, salt) ==
  IF email = "" \/ password = ""
  THEN [threw |-> TRUE, users |-> users]
  ELSE [threw |-> FALSE,
        users |-> Append(users, [email |-> email,
                                 password |-> Argon2Hash(salt, password),
                                 role |-> "admin"])]

(***************************************************************************)
(* JavaScript values held by a session, and the session check.             *)
(***************************************************************************)
\* kinds of JavaScript value a session property may hold
JsKinds == {"undefined", "null", "false", "emptystr", "zero", "true", "str", "object"}

\* ToBoolean
Truthy(kind) == kind \in {"true", "str", "object"}

\* a value: its kind and, for an object, the kind of its "user" property
JsVal(kind, user) == [kind |-> kind, user |-> user]

\* v.user: a TypeError on undefined and null, undefined on any other primitive
MemberUser(v) ==
  IF v.kind \in {"undefined", "null"} THEN "TypeError"
  ELSE IF v.kind = "object" THEN v.user
  ELSE "undefined"

\* req.session as a value: kind, and for an object its three marker properties
Session(kind, adminUser, adminjs, passport) ==
  [kind |-> kind, adminUser |-> adminUser, adminjs |-> adminjs, passport |-> passport]

\* req.session.<name>: a TypeError on undefined and null, undefined on a primitive
SessionProp(session, name) ==
  IF session.kind \in {"undefined", "null"} THEN "TypeError"
  ELSE IF session.kind = "object"
       THEN (IF name = "adminUser" THEN session.adminUser ELSE session.adminjs)
       ELSE "undefined"

\* req.session.passport
SessionPassport(session) ==
  IF session.kind \in {"undefined", "null"} THEN JsVal("TypeError", "undefined")
  ELSE IF session.kind = "object" THEN session.passport
  ELSE JsVal("undefined", "undefined")

\* checkAuth without the req.session.passport && guard
CheckAuthMutNoPassportGuard(session) ==
  IF ~Truthy(session.kind) THEN "false"
  ELSE IF Truthy(SessionProp(session, "adminUser")) THEN "true"
  ELSE IF Truthy(SessionProp(session, "adminjs")) THEN "true"
  ELSE LET u == MemberUser(SessionPassport(session))
       IN IF u = "TypeError" THEN "throw"
          ELSE IF Truthy(u) THEN "true" ELSE "false"

\* checkAuth(req): "true", "false", or "throw" when evaluating it raises
checkAuth(session) ==
  IF ~Truthy(session.kind) THEN "false"
  ELSE IF Truthy(SessionProp(session, "adminUser")) THEN "true"
  ELSE IF Truthy(SessionProp(session, "adminjs")) THEN "true"
  ELSE LET p == SessionPassport(session)
       IN IF ~Truthy(p.kind) THEN "false"
          ELSE LET u == MemberUser(p)
               IN IF u = "TypeError" THEN "throw"
                  ELSE IF Truthy(u) THEN "true" ELSE "false"

\* no response sent
NoResponse == [sent |-> FALSE]

\* res.status(401).json({ error: 'Unauthorized' })
Unauthorized == [sent |-> TRUE, status |-> 401, kind |-> "json", error |-> "Unauthorized"]

\* res.redirect('/admin/login')
LoginRedirect == [sent |-> TRUE, status |-> 302, kind |-> "redirect", location |-> "/admin/login"]

\* what a guard did: the result of checkAuth, how often next was called, what was sent
GuardOutcome(check, next, res) == [check |-> check, next |-> next, res |-> res]

\* requireAuthWeb that redirects and then still calls next
RequireAuthWebMutFallThrough(session) ==
  LET c == checkAuth(session)
  IN IF c = "throw" THEN GuardOutcome(c, 0, NoResponse)
     ELSE IF c = "true" THEN GuardOutcome(c, 1, NoResponse)
     ELSE GuardOutcome(c, 1, LoginRedirect)

\* requireAuth that admits every request
RequireAuthMutAdmitAll(session) == GuardOutcome(checkAuth(session), 1, NoResponse)

\* requireAuth(req, res, next)
requireAuth(session) ==
  LET c == checkAuth(session)
  IN IF c = "throw" THEN GuardOutcome(c, 0, NoResponse)
     ELSE IF c = "true" THEN GuardOutcome(c, 1, NoResponse)
     ELSE GuardOutcome(c, 0, Unauthorized)

\* requireAuthWeb(req, res, next)
requireAuthWeb(session) ==
  LET c == checkAuth(session)
  IN IF c = "throw" THEN GuardOutcome(c, 0, NoResponse)
     ELSE IF c = "true" THEN GuardOutcome(c, 1, NoResponse)
     ELSE GuardOutcome(c, 0, LoginRedirect)

\* the sessions requests may carry
MarkerKinds == {"undefined", "null", "emptystr", "object"}
PassportValues ==
  {JsVal(k, "undefined") : k \in {"undefined", "null", "str", "zero"}}
    \cup {JsVal("object", u) : u \in {"undefined", "null", "false", "str", "object"}}
ObjectSessions ==
  {Session("object", a, b, p) : a \in MarkerKinds, b \in {"undefined", "object"}, p \in PassportValues}
NonObjectSessions ==
  {Session(k, "undefined", "undefined", JsVal("undefined", "undefined")) :
     k \in {"undefined", "null", "str"}}
AllSessions == ObjectSessions \cup NonObjectSessions

\* a logged-in session, a session without marker, and no session
SampleSessions ==
  {Session("object", "object", "undefined", JsVal("undefined", "undefined")),
   Session("object", "undefined", "undefined", JsVal("object", "undefined")),
   Session("undefined", "undefined", "undefined", JsVal("undefined", "undefined"))}

(***************************************************************************)
(* The record store: rows of the search_queries table.                     *)
(***************************************************************************)
\* SQL NULL in a text column
NullText == "<NULL>"

\* a timestamp: a calendar day and a time within the day; SQL NULL
Ts(day, tick) == [null |-> FALSE, day |-> day, tick |-> tick]
NullTs == [null |-> TRUE, day |-> 0, tick |-> 0]

\* the calendar dates of the model, in chronological order
DayNames == <<"2024-01-01", "2024-01-02", "2024-01-03">>

\* a row of search_queries
Row(id, keyword, search_type, platform_name, created_at) ==
  [id |-> id, keyword |-> keyword, search_type |-> search_type,
   platform_name |-> platform_name, created_at |-> created_at]

\* the field values the ingestion process may insert
RecordInputs ==
  { <<"k1", "job", "web", Ts(1, 0)>>,
    <<"k2", "job", NullText, Ts(2, 0)>>,
    <<NullText, NullText, "mobile", Ts(2, 1)>>,
    <<"k1", "", "", Ts(1, 0)>>,
    <<"k2", "Unknown", "Unknown", Ts(3, 0)>>,
    <<NullText, NullText, NullText, NullTs>> }

\* the store after inserting fields f: id is the next value of the SERIAL column
InsertRow(store, f) == Append(store, Row(Len(store) + 1, f[1], f[2], f[3], f[4]))

\* the attributes the SearchQuery model declares
ModelAttributes == {"id", "keyword", "search_type", "created_at"}

\* the rows of the table as a set
Rows(store) == {store[i] : i \in 1..Len(store)}

\* all orders in which a set of result rows may be returned
RECURSIVE Perms(_)
Perms(S) ==
  IF S = {} THEN {<<>>}
  ELSE UNION {{<<x>> \o t : t \in Perms(S \ {x})} : x \in S}

\* a bigint as the driver returns it: its decimal digits
RECURSIVE ToDecimal(_)
ToDecimal(n) == IF n < 10 THEN <<n>> ELSE Append(ToDecimal(n \div 10), n % 10)

\* parseInt of a string of decimal digits
RECURSIVE parseInt(_)
parseInt(digits) ==
  IF Len(digits) = 0 THEN 0
  ELSE 10 * parseInt(SubSeq(digits, 1, Len(digits) - 1)) + digits[Len(digits)]

\* SearchQuery.count()
CountAll(store) == Len(store)

\* SELECT search_type, COUNT(id) ... GROUP BY search_type: the result rows
SearchTypeRows(store) ==
  {[key |-> v, count |-> ToDecimal(Cardinality({r \in Rows(store) : r.search_type = v}))] :
     v \in {r.search_type : r \in Rows(store)}}

\* SELECT platform_name, COUNT(id) ... WHERE platform_name IS NOT NULL GROUP BY platform_name
PlatformRows(store) ==
  {[key |-> v, count |-> ToDecimal(Cardinality({r \in Rows(store) : r.platform_name = v}))] :
     v \in {r.platform_name : r \in Rows(store)} \ {NullText}}

\* a JavaScript object: its properties in insertion order
EmptyObject == <<>>
ObjectKeys(obj) == {obj[i].key : i \in 1..Len(obj)}
ObjectIndex(obj, k) == (CHOOSE i \in 1..Len(obj) : obj[i].key = k)
ObjectValue(obj, k) == obj[ObjectIndex(obj, k)].value

\* obj[k] = v
ObjectSet(obj, k, v) ==
  IF k \in ObjectKeys(obj)
  THEN [obj EXCEPT ![ObjectIndex(obj, k)] = [key |-> k, value |-> v]]
  ELSE Append(obj, [key |-> k, value |-> v])

\* value || 'Unknown' for a column value: null and the empty string are falsy
OrUnknown(value) == IF value = NullText \/ value = "" THEN "Unknown" ELSE value

\* rows.forEach(row => { obj[row.<column> || 'Unknown'] = parseInt(row.count) })
RECURSIVE FoldBreakdown(_, _)
FoldBreakdown(rows, obj) ==
  IF rows = <<>> THEN obj
  ELSE FoldBreakdown(Tail(rows), ObjectSet(obj, OrUnknown(Head(rows).key), parseInt(Head(rows).count)))

\* searchTypeBreakdown from the rows of the search type query
SearchTypeBreakdown(rows) == FoldBreakdown(rows, EmptyObject)

\* platformBreakdown from the rows of the platform query
PlatformBreakdown(rows) == FoldBreakdown(rows, EmptyObject)

\* DATE(created_at): the calendar date of a timestamp, NULL for NULL
DateOf(ts) == IF ts.null THEN NullText ELSE DayNames[ts.day]

\* the days of DayNames that occur in a set of dates, in ascending order
RECURSIVE DaysAscending(_, _)
DaysAscending(dates, d) ==
  IF d > Len(DayNames) THEN <<>>
  ELSE (IF DayNames[d] \in dates THEN <<DayNames[d]>> ELSE <<>>) \o DaysAscending(dates, d + 1)

\* the timeline query leaving out the rows without created_at
TimelineRowsMutSkipNull(store) ==
  LET dates == {DateOf(r.created_at) : r \in Rows(store)}
      ordered == DaysAscending(dates, 1)
  IN [i \in 1..Len(ordered) |->
        [date |-> ordered[i],
         count |-> ToDecimal(Cardinality({r \in Rows(store) : DateOf(r.created_at) = ordered[i]}))]]

\* SELECT DATE(created_at), COUNT(id) ... GROUP BY DATE(created_at) ORDER BY 1 ASC;
\* ascending order puts the NULL group last
TimelineRows(store) ==
  LET dates == {DateOf(r.created_at) : r \in Rows(store)}
      ordered == DaysAscending(dates, 1) \o (IF NullText \in dates THEN <<NullText>> ELSE <<>>)
  IN [i \in 1..Len(ordered) |->
        [date |-> ordered[i],
         count |-> ToDecimal(Cardinality({r \in Rows(store) : DateOf(r.created_at) = ordered[i]}))]]

\* the property key a value is converted to: null becomes "null"
PropertyKey(value) == IF value = NullText THEN "null" ELSE value

\* timelineResults.forEach(row => { timelineData[row.date] = parseInt(row.count) })
RECURSIVE FoldTimeline(_, _)
FoldTimeline(rows, obj) ==
  IF rows = <<>> THEN obj
  ELSE FoldTimeline(Tail(rows), ObjectSet(obj, PropertyKey(Head(rows).date), parseInt(Head(rows).count)))

TimelineData(rows) == FoldTimeline(rows, EmptyObject)

\* a sorts after b in time; NULL compares as larger than every timestamp
TsGreater(a, b) ==
  \/ a.null /\ ~b.null
  \/ /\ ~a.null /\ ~b.null
     /\ (a.day > b.day \/ (a.day = b.day /\ a.tick > b.tick))

\* the created_at values that are not NULL
CreatedValues(store) == {r.created_at : r \in {q \in Rows(store) : ~q.created_at.null}}

\* the date range query answering with no row for an empty table
DateRangeRowsMutNoRow(store) ==
  LET vals == CreatedValues(store)
  IN IF vals = {} THEN <<>>
     ELSE <<[earliest |-> CHOOSE v \in vals : \A w \in vals : ~TsGreater(v, w),
             latest |-> CHOOSE v \in vals : \A w \in vals : ~TsGreater(w, v)]>>

\* SELECT MIN(created_at) AS earliest, MAX(created_at) AS latest: always one row,
\* the aggregates skip NULL and are NULL when no value is left
DateRangeRows(store) ==
  LET vals == CreatedValues(store)
  IN <<[earliest |-> IF vals = {} THEN NullTs
                     ELSE CHOOSE v \in vals : \A w \in vals : ~TsGreater(v, w),
         latest |-> IF vals = {} THEN NullTs
                    ELSE CHOOSE v \in vals : \A w \in vals : ~TsGreater(w, v)]>>

\* values of the JSON response
JsNull == [null |-> TRUE]
JsUndefined == [undefined |-> TRUE]
JsNumber(n) == [number |-> n]
JsString(s) == [string |-> s]
JsDate(ts) == [date |-> ts]

\* a column value as the JavaScript value the driver hands out
TextToJs(v) == IF v = NullText THEN JsNull ELSE JsString(v)
TsToJs(ts) == IF ts.null THEN JsNull ELSE JsDate(ts)

\* const { earliest, latest } = dateRange[0] || {}
DateRangeOf(rows) ==
  IF Len(rows) = 0 THEN [earliest |-> JsUndefined, latest |-> JsUndefined]
  ELSE [earliest |-> TsToJs(rows[1].earliest), latest |-> TsToJs(rows[1].latest)]

\* the program constant: limit of the recent queries
RecentLimit == 10

\* all orders ORDER BY created_at DESC may return: descending, NULL first,
\* rows with equal created_at in any order
RECURSIVE OrderByCreatedDesc(_)
OrderByCreatedDesc(S) ==
  IF S = {} THEN {<<>>}
  ELSE LET first == {r \in S : \A q \in S : ~TsGreater(q.created_at, r.created_at)}
       IN UNION {{<<m>> \o t : t \in OrderByCreatedDesc(S \ {m})} : m \in first}

\* LIMIT n
Limit(rows, n) == SubSeq(rows, 1, IF Len(rows) < n THEN Len(rows) ELSE n)

\* the recent query returning rows in ascending order
RecentRowsMutAscending(store) ==
  LET Reverse(s) == [i \in 1..Len(s) |-> s[Len(s) + 1 - i]]
  IN {Limit(Reverse(s), RecentLimit) : s \in OrderByCreatedDesc(Rows(store))}

\* SearchQuery.findAll({ order: [['created_at', 'DESC']], limit: 10 }): the possible results
RecentRows(store) == {Limit(s, RecentLimit) : s \in OrderByCreatedDesc(Rows(store))}

\* a model instance built from a row: it carries the declared attributes only
Instance(row) ==
  [a \in ModelAttributes |->
     IF a = "id" THEN JsNumber(row.id)
     ELSE IF a = "keyword" THEN TextToJs(row.keyword)
     ELSE IF a = "search_type" THEN TextToJs(row.search_type)
     ELSE TsToJs(row.created_at)]

\* r.<name> on a model instance: undefined for a property it does not carry
InstanceProp(inst, name) == IF name \in DOMAIN inst THEN inst[name] ELSE JsUndefined

\* the fields of a recentQueries entry
EntryFields == {"id", "keyword", "search_type", "platform_name", "created_at"}

\* recentRecords.map(r => ({ id: r.id, ..., created_at: r.created_at }))
Project(inst) == [f \in EntryFields |-> InstanceProp(inst, f)]

\* JSON serialization of an object: properties whose value is undefined are left out
JsonObject(obj) == [f \in {g \in DOMAIN obj : obj[g] # JsUndefined} |-> obj[f]]

\* recentQueries as sent: projected and serialized
RecentQueries(rows) == [i \in 1..Len(rows) |-> JsonObject(Project(Instance(rows[i])))]

(***************************************************************************)
(* Errors and the error handler.                                           *)
(***************************************************************************)
\* err.original || err.parent: absent, or the driver error with its four fields
NoDb == [present |-> FALSE]
DbError(message, code, detail, hint) ==
  [present |-> TRUE, message |-> message, code |-> code, detail |-> detail, hint |-> hint]

\* an error object: status is 0 when it has neither status nor statusCode, message is
\* "" when empty, stack and details are JavaScript values
Err(status, message, stack, details, db) ==
  [status |-> status, message |-> message, stack |-> stack, details |-> details, db |-> db]

\* what a failing query can reject with
StorageErrors ==
  { Err(0, "connect ECONNREFUSED", JsString("SequelizeConnectionRefusedError: at ..."), JsUndefined,
        DbError(JsString("connect ECONNREFUSED"), JsString("ECONNREFUSED"), JsUndefined, JsUndefined)),
    Err(0, "relation \"search_queries\" does not exist", JsString("SequelizeDatabaseError: at ..."),
        JsUndefined,
        DbError(JsString("relation \"search_queries\" does not exist"), JsString("42P01"),
                JsString("detail"), JsString("hint"))),
    Err(0, "", JsString("Error: at ..."), JsString("details"), NoDb) }

\* notFoundHandler: new Error(`Not Found - ${req.originalUrl}`) with status 404
NotFoundError == Err(404, "Not Found - /missing", JsString("Error: Not Found at ..."), JsUndefined, NoDb)

GenericMessage == "Internal Server Error"

\* errorHandler that sends everything it has in every mode
ErrorHandlerMutExposeAlways(err, isProduction) ==
  LET statusCode == IF err.status # 0 THEN err.status ELSE 500
      message == IF err.message # "" THEN err.message ELSE GenericMessage
  IN [sent |-> TRUE, status |-> statusCode, kind |-> "json",
      errorBody |-> JsonObject(
        [message |-> JsString(message),
         status |-> JsNumber(statusCode),
         stack |-> err.stack,
         details |-> err.details,
         dbMessage |-> IF err.db.present THEN err.db.message ELSE JsUndefined,
         dbCode |-> IF err.db.present THEN err.db.code ELSE JsUndefined,
         dbDetail |-> IF err.db.present THEN err.db.detail ELSE JsUndefined,
         dbHint |-> IF err.db.present THEN err.db.hint ELSE JsUndefined])]

\* errorHandler(err, req, res, next): the status and the JSON body under "error"
errorHandler(err, isProduction) ==
  LET statusCode == IF err.status # 0 THEN err.status ELSE 500
      message == IF err.message # "" THEN err.message ELSE GenericMessage
      shown(v) == IF isProduction THEN JsUndefined ELSE v
      dbShown(v) == IF isProduction \/ ~err.db.present THEN JsUndefined ELSE v
  IN [sent |-> TRUE, status |-> statusCode, kind |-> "json",
      errorBody |-> JsonObject(
        [message |-> JsString(IF isProduction /\ statusCode = 500 THEN GenericMessage ELSE message),
         status |-> JsNumber(statusCode),
         stack |-> shown(err.stack),
         details |-> shown(err.details),
         dbMessage |-> IF err.db.present THEN dbShown(err.db.message) ELSE JsUndefined,
         dbCode |-> IF err.db.present THEN dbShown(err.db.code) ELSE JsUndefined,
         dbDetail |-> IF err.db.present THEN dbShown(err.db.detail) ELSE JsUndefined,
         dbHint |-> IF err.db.present THEN dbShown(err.db.hint) ELSE JsUndefined])]

\* asyncHandler that drops the rejection
AsyncHandlerMutNoCatch(outcome) == [next |-> FALSE]

\* asyncHandler(fn): Promise.resolve(fn(req, res, next)).catch(next); outcome is how
\* the handler's promise settled
asyncHandler(outcome) ==
  IF outcome.rejected THEN [next |-> TRUE, err |-> outcome.err] ELSE [next |-> FALSE]

\* the six queries of the /api/stats handler in program order, and the handler
\* position before each
QueryOrder == <<"count", "searchType", "platform", "timeline", "dateRange", "recent">>
QueryPcs == <<"total", "searchType", "platform", "timeline", "dateRange", "recent">>

(***************************************************************************)
(* State.                                                                  *)
(***************************************************************************)
VARIABLES
  adminUsers,   \* auth.js: the adminUsers array
  initLog,      \* every initializeAdminUser call so far: its inputs and whether it stored
  authCall,     \* the last authenticate call: arguments, identities configured, return value
  store,        \* the rows of search_queries, in insertion order
  req,          \* the request being handled: its route and session
  pc,           \* where the handling of req stands
  guard,        \* what the guard of the route did for req
  queryLog,     \* the record-store queries issued for req, in order
  locals,       \* the stats handler's local variables
  response,     \* the response a route handler sent for req
  failure,      \* the record-store query of req that failed, and its error
  production,   \* process.env.NODE_ENV === 'production'
  history,      \* the snapshot of the previous stats request and the store it was taken over
  proc,         \* the server process: its environment, startup position, listening, exit code
  limits,       \* the rate limiters' counters and the last login attempt
  conn,         \* the testConnection call: arguments, position in the loop, attempts and waits
  shut,         \* graceful shutdown: triggers received, close calls, timers, how the process exited
  https         \* HTTPS_ENABLED and FORCE_HTTPS_REDIRECT of the environment

authVars == <<adminUsers, initLog, authCall>>
reqVars == <<req, pc, guard, queryLog, locals, response, failure>>
opsVars == <<conn, shut, https>>
sysVars == <<production, history, proc, limits, opsVars>>
vars == <<adminUsers, initLog, authCall, store, req, pc, guard, queryLog, locals, response,
          failure, production, history, proc, limits, conn, shut, https>>

NoRequest == [active |-> FALSE]
NoGuard == [ran |-> FALSE]
NoFailure == [failed |-> FALSE]
NoHistory == [taken |-> FALSE]
NoLocals ==
  [total |-> 0, searchTypeBreakdown |-> EmptyObject, platformBreakdown |-> EmptyObject,
   timelineData |-> EmptyObject, dateRange |-> DateRangeOf(<<>>)]

\* nothing is being handled
Idle ==
  /\ req = NoRequest
  /\ pc = "idle"
  /\ guard = NoGuard
  /\ queryLog = <<>>
  /\ locals = NoLocals
  /\ response = NoResponse
  /\ failure = NoFailure

\* process.env as far as startup reads it: the admin credentials ("" is unset) and
\* whether the remaining variables satisfy the schema of validateEnv
Env(email, password, restValid) == [email |-> email, password |-> password, restValid |-> restValid]

\* a server process at a startup position; step counts the awaited calls of start done
Process(env, phase, step, listening, exited, exitCode) ==
  [env |-> env, phase |-> phase, step |-> step, listening |-> listening,
   exited |-> exited, exitCode |-> exitCode]

\* a process that completed startup and serves requests
Serving == Process(Env("a@x", "pw1", TRUE), "running", 4, TRUE, FALSE, 0)

\* no request counted in the current rate limit windows, no login attempted
NoLimits == [apiHits |-> 0, failedLogins |-> 0, lastLogin |-> [attempted |-> FALSE]]

\* the state around request handling when nothing of it is being exercised
\* no testConnection call made
NoConn == [state |-> "idle"]

\* no shutdown trigger received
NoShutdown ==
  [triggers |-> <<>>, closeCalls |-> 0, serverClosed |-> FALSE, callbacks |-> 0,
   dbCloseCalls |-> 0, dbRunning |-> 0, dbResult |-> "none", timers |-> 0, exitVia |-> "none"]

\* HTTPS_ENABLED and FORCE_HTTPS_REDIRECT as the schema defaults them
HttpsDefaults == [enabled |-> FALSE, force |-> TRUE]

InitOps ==
  /\ conn = NoConn
  /\ shut = NoShutdown
  /\ https = HttpsDefaults

InitSys ==
  /\ production \in BOOLEAN
  /\ history = NoHistory
  /\ proc = Serving
  /\ limits = NoLimits
  /\ InitOps

InitAuth ==
  /\ adminUsers = <<>>
  /\ initLog = <<>>
  /\ authCall = NoCall

Init ==
  /\ InitAuth
  /\ store = <<>>
  /\ Idle
  /\ InitSys

\* the record of one initializeAdminUser call: its inputs, whether it threw, and
\* whether it changed the adminUsers array it started from
InitEntry(email, password, r, usersBefore) ==
  [email |-> email, password |-> password, threw |-> r.threw, stored |-> r.users # usersBefore]

\* the identities stored by the calls of a log, as (email, password) in order
Configured(log) == SelectSeq(log, LAMBDA c : c.stored)

\* validateEnv(): ADMIN_EMAIL and ADMIN_PASSWORD are required non-empty strings, and
\* the rest of the schema has to hold
validateEnv(env) == env.email # "" /\ env.password # "" /\ env.restValid

\* start() that listens before anything else
StartOrderMutListenFirst == <<"listen", "initializeAdminUser", "testConnection", "sync">>

\* the steps of start() that can fail or open the port, in program order
StartOrder == <<"initializeAdminUser", "testConnection", "sync", "listen">>

\* process.exit(code)
Exit(p, code) ==
  [p EXCEPT !.phase = "exited", !.listening = FALSE, !.exited = TRUE, !.exitCode = code]

\* start() got past its next step
Advance(p) ==
  [p EXCEPT !.step = p.step + 1,
            !.phase = IF p.step + 1 = Len(StartOrder) THEN "running" ELSE "start"]

\* start() is about to run the step called name
AtStep(name) ==
  /\ proc.phase = "start"
  /\ proc.step < Len(StartOrder)
  /\ StartOrder[proc.step + 1] = name

(***************************************************************************)
(* Authentication gate operations.                                         *)
(***************************************************************************)
\* initializeAdminUser with ADMIN_EMAIL = email and ADMIN_PASSWORD = password
InitializeAdminUser(email, password, salt) ==
  /\ Len(initLog) < MaxInit
  /\ LET r == initializeAdminUser(adminUsers, email, password, salt)
     IN /\ adminUsers' = r.users
        /\ initLog' = Append(initLog, InitEntry(email, password, r, adminUsers))
  /\ UNCHANGED <<authCall, store, reqVars, sysVars>>

\* an authenticate call that stores a fresh hash of the password on a match
AuthenticateMutRehash(email, password, fault) ==
  LET r == authenticate(adminUsers, email, password, fault)
      idx == FindUser(adminUsers, email)
  IN /\ authCall' = [called |-> TRUE, email |-> email, password |-> password,
                     fault |-> fault, log |-> initLog, configured |-> Configured(initLog),
                     verify |-> r.verify, result |-> r.result]
     /\ adminUsers' = IF r.verify = "valid"
                      THEN [adminUsers EXCEPT ![idx].password =
                              Argon2Hash(CHOOSE s \in Salts : s # adminUsers[idx].password.salt,
                                         password)]
                      ELSE adminUsers
     /\ UNCHANGED <<initLog, store, reqVars, sysVars>>

\* one authenticate(email, password) call
Authenticate(email, password, fault) ==
  LET r == authenticate(adminUsers, email, password, fault)
  IN /\ authCall' = [called |-> TRUE, email |-> email, password |-> password,
                     fault |-> fault, log |-> initLog, configured |-> Configured(initLog),
                     verify |-> r.verify, result |-> r.result]
     /\ UNCHANGED <<adminUsers, initLog, store, reqVars, sysVars>>

DoInitialize == \E e \in Emails, p \in Passwords, s \in Salts : InitializeAdminUser(e, p, s)
DoAuthenticate == \E e \in Emails, p \in Passwords, f \in BOOLEAN : Authenticate(e, p, f)

NextAuth == DoInitialize \/ DoAuthenticate

SpecAuth == Init /\ [][NextAuth]_vars

(***************************************************************************)
(* Request handling: the guards and the GET /api/stats handler.            *)
(***************************************************************************)
\* a request for route arrives with a session
Arrive(route, session) ==
  /\ pc = "idle"
  /\ proc.listening
  /\ req' = [active |-> TRUE, route |-> route, session |-> session]
  /\ pc' = "guard"
  /\ UNCHANGED <<authVars, store, guard, queryLog, locals, response, failure, sysVars>>

\* the response express sends when a middleware throws
ServerError == [sent |-> TRUE, status |-> 500, kind |-> "json", error |-> "TypeError"]

\* the guard step of a route: run the guard, go on to the handler if it called next
GuardStep(route, outcome, handler) ==
  /\ pc = "guard"
  /\ req.route = route
  /\ guard' = [ran |-> TRUE, check |-> outcome.check, next |-> outcome.next, res |-> outcome.res]
  /\ pc' = IF outcome.next > 0 THEN handler ELSE "done"
  /\ response' = IF outcome.check = "throw" THEN ServerError ELSE response
  /\ UNCHANGED <<authVars, store, req, queryLog, locals, failure, sysVars>>

\* app.get('/api/stats', requireAuth, ...)
RequireAuth == GuardStep("/api/stats", requireAuth(req.session), "total")

\* app.get('/dashboard', requireAuthWeb, ...)
RequireAuthWeb == GuardStep("/dashboard", requireAuthWeb(req.session), "page")

\* one awaited query of the stats handler: logs it, updates the locals, moves on
QueryStep(at, name, newLocals, then) ==
  /\ pc = at
  /\ queryLog' = Append(queryLog, name)
  /\ locals' = newLocals
  /\ pc' = then
  /\ UNCHANGED <<authVars, store, req, guard, response, failure, sysVars>>

QueryTotal ==
  QueryStep("total", "count", [locals EXCEPT !.total = CountAll(store)], "searchType")

QuerySearchType ==
  \E rows \in Perms(SearchTypeRows(store)) :
    QueryStep("searchType", "searchType",
              [locals EXCEPT !.searchTypeBreakdown = SearchTypeBreakdown(rows)], "platform")

QueryPlatform ==
  \E rows \in Perms(PlatformRows(store)) :
    QueryStep("platform", "platform",
              [locals EXCEPT !.platformBreakdown = PlatformBreakdown(rows)], "timeline")

QueryTimeline ==
  QueryStep("timeline", "timeline",
            [locals EXCEPT !.timelineData = TimelineData(TimelineRows(store))], "dateRange")

QueryDateRange ==
  QueryStep("dateRange", "dateRange",
            [locals EXCEPT !.dateRange = DateRangeOf(DateRangeRows(store))], "recent")

\* the body of res.json({ success: true, data: {...} })
StatsBody(l, recentQueries) ==
  [success |-> TRUE,
   data |-> [total |-> l.total,
             searchTypeBreakdown |-> l.searchTypeBreakdown,
             timelineData |-> l.timelineData,
             platformBreakdown |-> l.platformBreakdown,
             recentQueries |-> recentQueries,
             dateRange |-> JsonObject(l.dateRange)]]

\* the last query, the projection of its rows, and res.json
QueryRecent ==
  \E rows \in RecentRows(store) :
    /\ pc = "recent"
    /\ queryLog' = Append(queryLog, "recent")
    /\ response' = [sent |-> TRUE, status |-> 200, kind |-> "json",
                    body |-> StatsBody(locals, RecentQueries(rows))]
    /\ pc' = "done"
    /\ UNCHANGED <<authVars, store, req, guard, locals, failure, sysVars>>

\* the query awaited at position at rejects with err: the handler's promise rejects,
\* asyncHandler passes the error to next, and errorHandler answers
QueryFail(at, name, err) ==
  /\ pc = at
  /\ queryLog' = Append(queryLog, name)
  /\ failure' = [failed |-> TRUE, at |-> name, err |-> err]
  /\ LET h == asyncHandler([rejected |-> TRUE, err |-> err])
     IN response' = IF h.next THEN errorHandler(h.err, production) ELSE response
  /\ pc' = "done"
  /\ UNCHANGED <<authVars, store, req, guard, locals, sysVars>>

QueryFails ==
  \E k \in 1..Len(QueryOrder), err \in StorageErrors : QueryFail(QueryPcs[k], QueryOrder[k], err)

\* a request for a path no route serves
ArriveUnknown ==
  /\ pc = "idle"
  /\ proc.listening
  /\ \E s \in SampleSessions : req' = [active |-> TRUE, route |-> "/missing", session |-> s]
  /\ pc' = "notFound"
  /\ UNCHANGED <<authVars, store, guard, queryLog, locals, response, failure, sysVars>>

\* app.use(notFoundHandler) then app.use(errorHandler)
NotFoundHandler ==
  /\ pc = "notFound"
  /\ failure' = [failed |-> TRUE, at |-> "notFound", err |-> NotFoundError]
  /\ response' = errorHandler(NotFoundError, production)
  /\ pc' = "done"
  /\ UNCHANGED <<authVars, store, req, guard, queryLog, locals, sysVars>>

\* the /dashboard handler: res.send of the page
DashboardPage ==
  /\ pc = "page"
  /\ response' = [sent |-> TRUE, status |-> 200, kind |-> "html"]
  /\ pc' = "done"
  /\ UNCHANGED <<authVars, store, req, guard, queryLog, locals, failure, sysVars>>

\* the request is over
Finish ==
  /\ pc = "done"
  /\ req' = NoRequest
  /\ pc' = "idle"
  /\ guard' = NoGuard
  /\ queryLog' = <<>>
  /\ locals' = NoLocals
  /\ response' = NoResponse
  /\ failure' = NoFailure
  /\ UNCHANGED <<authVars, store, sysVars>>

\* the request is over; a snapshot it returned is kept for comparison with the next one
FinishRemember ==
  /\ pc = "done"
  /\ history' = IF response.sent /\ response.status = 200 /\ response.kind = "json"
                THEN [taken |-> TRUE, data |-> response.body.data, store |-> store]
                ELSE history
  /\ req' = NoRequest
  /\ pc' = "idle"
  /\ guard' = NoGuard
  /\ queryLog' = <<>>
  /\ locals' = NoLocals
  /\ response' = NoResponse
  /\ failure' = NoFailure
  /\ UNCHANGED <<authVars, store, production, proc, limits, opsVars>>

\* the ingestion process inserts a row while no request is being handled
Ingest(f) ==
  /\ pc = "idle"
  /\ Len(store) < MaxRecords
  /\ store' = InsertRow(store, f)
  /\ UNCHANGED <<authVars, reqVars, sysVars>>

StatsQueries ==
  \/ QueryTotal
  \/ QuerySearchType
  \/ QueryPlatform
  \/ QueryTimeline
  \/ QueryDateRange
  \/ QueryRecent

ArriveStats == \E s \in SampleSessions : Arrive("/api/stats", s)
ArriveAny == \E route \in {"/api/stats", "/dashboard"}, s \in AllSessions : Arrive(route, s)
DoIngest == \E f \in RecordInputs : Ingest(f)

(***************************************************************************)
(* Process startup: module load, then start().                             *)
(***************************************************************************)
\* server.js is loaded: validateEnv() runs, a failure exits with code 1
LoadEnv ==
  /\ proc.phase = "load"
  /\ proc' = IF validateEnv(proc.env) THEN [proc EXCEPT !.phase = "start"] ELSE Exit(proc, 1)
  /\ UNCHANGED <<authVars, store, reqVars, production, history, limits, opsVars>>

\* await initializeAdminUser(); a rejection (missing credentials, or argon2.hash
\* rejecting) reaches start().catch, which exits with code 1
StartInitializeAdminUser ==
  /\ AtStep("initializeAdminUser")
  /\ \E salt \in Salts, hashFault \in BOOLEAN :
       LET email == proc.env.email
           password == proc.env.password
           r == IF hashFault /\ email # "" /\ password # ""
                THEN [threw |-> TRUE, users |-> adminUsers]
                ELSE initializeAdminUser(adminUsers, email, password, salt)
       IN /\ adminUsers' = r.users
          /\ initLog' = Append(initLog, InitEntry(email, password, r, adminUsers))
          /\ proc' = IF r.threw THEN Exit(proc, 1) ELSE Advance(proc)
  /\ UNCHANGED <<authCall, store, reqVars, production, history, limits, opsVars>>

\* an awaited step of start() that touches the database: it resolves, or it rejects
\* and start().catch exits with code 1
StartAwait(name) ==
  /\ AtStep(name)
  /\ \E ok \in BOOLEAN : proc' = IF ok THEN Advance(proc) ELSE Exit(proc, 1)
  /\ UNCHANGED <<authVars, store, reqVars, production, history, limits, opsVars>>

\* await testConnection()
StartTestConnection == StartAwait("testConnection")

\* await sequelize.sync({ alter: false })
StartSync == StartAwait("sync")

\* serverFactory().listen(PORT, ...)
StartListen ==
  /\ AtStep("listen")
  /\ proc' = [Advance(proc) EXCEPT !.listening = TRUE]
  /\ UNCHANGED <<authVars, store, reqVars, production, history, limits, opsVars>>

\* the process before server.js is loaded, under every environment
InitStart ==
  /\ InitAuth
  /\ store = <<>>
  /\ Idle
  /\ production \in BOOLEAN
  /\ history = NoHistory
  /\ limits = NoLimits
  /\ InitOps
  /\ \E e \in Emails, p \in Passwords, v \in BOOLEAN :
       proc = Process(Env(e, p, v), "load", 0, FALSE, FALSE, 0)

\* startup followed by GET /api/stats requests
NextStart ==
  \/ LoadEnv
  \/ StartInitializeAdminUser
  \/ StartTestConnection
  \/ StartSync
  \/ StartListen
  \/ ArriveStats
  \/ RequireAuth
  \/ StatsQueries
  \/ Finish

SpecStart == InitStart /\ [][NextStart]_vars

\* the AdminJS login handler calls authenticate with the submitted credentials
Login ==
  /\ proc.listening
  /\ \E e \in Emails, p \in Passwords, f \in BOOLEAN : Authenticate(e, p, f)

\* the application from process start on: startup, then logins, guarded requests on
\* both routes and the /api/stats queries in any interleaving
NextApp ==
  \/ LoadEnv
  \/ StartInitializeAdminUser
  \/ StartTestConnection
  \/ StartSync
  \/ StartListen
  \/ Login
  \/ ArriveAny
  \/ RequireAuth
  \/ RequireAuthWeb
  \/ StatsQueries
  \/ DashboardPage
  \/ Finish

SpecApp == InitStart /\ [][NextApp]_vars

(***************************************************************************)
(* Rate limiting.                                                          *)
(***************************************************************************)
\* max of apiLimiter when RATE_LIMIT_MAX_REQUESTS is unset or not a number
DefaultRateLimitMax == 100

\* max of authLimiter
AuthLimitMax == 5

\* parseInt(process.env.RATE_LIMIT_MAX_REQUESTS) || 100
ApiLimiterMax ==
  LET n == parseInt(ToDecimal(RateLimitMaxRequests))
  IN IF n # 0 THEN n ELSE DefaultRateLimitMax

\* the limiters mounted in front of the AdminJS router, which serves the login
AdminRouteLimiters == {}

\* the handler of apiLimiter
TooManyRequests == [sent |-> TRUE, status |-> 429, kind |-> "json", error |-> "Too many requests"]

\* a request under /api arrives and meets apiLimiter first
ArriveApi ==
  /\ pc = "idle"
  /\ proc.listening
  /\ limits.apiHits <= ApiLimiterMax
  /\ \E s \in SampleSessions : req' = [active |-> TRUE, route |-> "/api/stats", session |-> s]
  /\ pc' = "limiter"
  /\ UNCHANGED <<authVars, store, guard, queryLog, locals, response, failure, sysVars>>

\* app.use('/api', apiLimiter): count the hit, answer 429 past the maximum, else next()
ApiLimiter ==
  /\ pc = "limiter"
  /\ limits' = [limits EXCEPT !.apiHits = limits.apiHits + 1]
  /\ IF limits.apiHits + 1 > ApiLimiterMax
     THEN response' = TooManyRequests /\ pc' = "done"
     ELSE response' = response /\ pc' = "guard"
  /\ UNCHANGED <<authVars, store, req, guard, queryLog, locals, failure, production, history, proc, opsVars>>

\* POST /admin/login: the limiters in front of the router, then authenticate; a
\* limiter counts the attempts that failed (skipSuccessfulRequests)
LoginAttempt(email, password, fault) ==
  /\ proc.listening
  /\ limits.failedLogins <= AuthLimitMax
  /\ IF "authLimiter" \in AdminRouteLimiters /\ limits.failedLogins >= AuthLimitMax
     THEN /\ limits' = [limits EXCEPT !.lastLogin =
                          [attempted |-> TRUE, rejected |-> TRUE,
                           priorFailures |-> limits.failedLogins]]
          /\ UNCHANGED authCall
     ELSE LET r == authenticate(adminUsers, email, password, fault)
          IN /\ authCall' = [called |-> TRUE, email |-> email, password |-> password,
                             fault |-> fault, log |-> initLog,
                             configured |-> Configured(initLog),
                             verify |-> r.verify, result |-> r.result]
             /\ limits' = [limits EXCEPT
                            !.failedLogins = IF r.result = NoMatch THEN @ + 1 ELSE @,
                            !.lastLogin = [attempted |-> TRUE, rejected |-> FALSE,
                                           priorFailures |-> limits.failedLogins]]
  /\ UNCHANGED <<adminUsers, initLog, store, reqVars, production, history, proc, opsVars>>

DoLoginAttempt == \E e \in Emails, p \in Passwords, f \in BOOLEAN : LoginAttempt(e, p, f)

\* the serving process with the admin identity of its environment stored
InitLimit ==
  /\ \E s \in Salts :
       LET r == initializeAdminUser(<<>>, Serving.env.email, Serving.env.password, s)
       IN /\ adminUsers = r.users
          /\ initLog = <<InitEntry(Serving.env.email, Serving.env.password, r, <<>>)>>
  /\ authCall = NoCall
  /\ store = <<>>
  /\ Idle
  /\ InitSys

\* requests under /api and login attempts within one rate-limit window
NextLimit ==
  \/ ArriveApi
  \/ ApiLimiter
  \/ RequireAuth
  \/ StatsQueries
  \/ Finish
  \/ DoLoginAttempt

SpecLimit == InitLimit /\ [][NextLimit]_vars

(***************************************************************************)
(* testConnection(retries, delay).                                         *)
(***************************************************************************)
\* how one pass through the try block can end: both calls resolve, or
\* sequelize.authenticate() rejects, or the version query rejects
AttemptOutcomes == {"ok", "authenticate", "version"}

\* the error caught in attempt n when call rejected
ConnError(n, call) == [attempt |-> n, call |-> call]

\* the delays callers pass (milliseconds)
Delays == {1000, 5000}

\* the catch block that waits after every failed attempt
AfterFailureMutAlwaysWait(attempt, retries) == "wait"

\* the catch block: wait and go round again, or rethrow
AfterFailure(attempt, retries) == IF attempt < retries THEN "wait" ELSE "throw"

\* testConnection(retries, delay) is called: the loop condition is evaluated once;
\* when it is false the function falls off its end and resolves with undefined
TestConnectionCall ==
  /\ conn.state = "idle"
  /\ \E retries \in 0..MaxRetries, delay \in Delays :
       conn' = IF 1 <= retries
               THEN [state |-> "running", retries |-> retries, delay |-> delay,
                     attempt |-> 1, log |-> <<>>, value |-> JsUndefined]
               ELSE [state |-> "returned", retries |-> retries, delay |-> delay,
                     attempt |-> 1, log |-> <<>>, value |-> JsUndefined]
  /\ UNCHANGED <<authVars, store, reqVars, production, history, proc, limits, shut, https>>

\* one pass through the try block and, when it fails, the catch block
TestConnectionAttempt ==
  /\ conn.state = "running"
  /\ \E outcome \in AttemptOutcomes :
       LET entry == [kind |-> "attempt", n |-> conn.attempt, outcome |-> outcome]
           logged == [conn EXCEPT !.log = Append(conn.log, entry)]
       IN conn' = IF outcome = "ok"
                  THEN [logged EXCEPT !.state = "returned", !.value = [boolean |-> TRUE]]
                  ELSE IF AfterFailure(conn.attempt, conn.retries) = "wait"
                       THEN [logged EXCEPT !.state = "waiting"]
                       ELSE [logged EXCEPT !.state = "threw",
                                           !.value = ConnError(conn.attempt, outcome)]
  /\ UNCHANGED <<authVars, store, reqVars, production, history, proc, limits, shut, https>>

\* await new Promise(resolve => setTimeout(resolve, delay)), then attempt++ and the
\* loop condition; when it is false the function resolves with undefined
TestConnectionWait ==
  /\ conn.state = "waiting"
  /\ LET waited == [conn EXCEPT !.log = Append(conn.log, [kind |-> "wait", ms |-> conn.delay]),
                                !.attempt = conn.attempt + 1]
     IN conn' = IF conn.attempt + 1 <= conn.retries
                THEN [waited EXCEPT !.state = "running"]
                ELSE [waited EXCEPT !.state = "returned"]
  /\ UNCHANGED <<authVars, store, reqVars, production, history, proc, limits, shut, https>>

\* the call is over and the caller may call again
TestConnectionDone ==
  /\ conn.state \in {"returned", "threw"}
  /\ conn' = NoConn
  /\ UNCHANGED <<authVars, store, reqVars, production, history, proc, limits, shut, https>>

NextConnect ==
  \/ TestConnectionCall
  \/ TestConnectionAttempt
  \/ TestConnectionWait
  \/ TestConnectionDone

SpecConnect == Init /\ [][NextConnect]_vars

(***************************************************************************)
(* Graceful shutdown.                                                      *)
(***************************************************************************)
\* what the process handlers pass to gracefulShutdown
Signals == {"SIGTERM", "SIGINT", "uncaughtException", "unhandledRejection"}

\* gracefulShutdown that arms no timer
TimersAfterMutNone(n) == n

\* setTimeout(() => process.exit(1), 30000): one more timer armed
TimersAfter(n) == n + 1

\* a close callback that exits with 0 whatever closeConnection did
ShutdownExitCodeMutAlwaysZero(closed) == 0

\* the close callback: process.exit(0) after closeConnection, process.exit(1) in the catch
ShutdownExitCode(closed) == IF closed THEN 0 ELSE 1

\* a close callback that does not wait for the server
CallbackReadyMutAtOnce(s) == TRUE

\* server.close(callback): the callback runs once the server has finished closing
CallbackReady(s) == s.serverClosed

\* a process handler calls gracefulShutdown(signal): server.close(callback), which stops
\* the server accepting connections, and the 30 second timer
GracefulShutdown(signal) ==
  /\ proc.phase = "running"
  /\ Len(shut.triggers) < MaxTriggers
  /\ shut' = [shut EXCEPT !.triggers = Append(@, signal),
                          !.closeCalls = @ + 1,
                          !.callbacks = @ + 1,
                          !.timers = TimersAfter(@)]
  /\ proc' = [proc EXCEPT !.listening = FALSE]
  /\ UNCHANGED <<authVars, store, reqVars, production, history, limits, conn, https>>

Trigger == \E signal \in Signals : GracefulShutdown(signal)

\* the last open connection ends and the server has finished closing; with
\* connections kept open this never happens
ServerCloses ==
  /\ proc.phase = "running"
  /\ shut.closeCalls > 0
  /\ ~shut.serverClosed
  /\ shut' = [shut EXCEPT !.serverClosed = TRUE]
  /\ UNCHANGED <<authVars, store, reqVars, production, history, proc, limits, conn, https>>

\* a callback passed to server.close runs and calls closeConnection()
CloseCallback ==
  /\ proc.phase = "running"
  /\ shut.callbacks > 0
  /\ CallbackReady(shut)
  /\ shut' = [shut EXCEPT !.callbacks = @ - 1, !.dbCloseCalls = @ + 1, !.dbRunning = @ + 1]
  /\ UNCHANGED <<authVars, store, reqVars, production, history, proc, limits, conn, https>>

\* a closeConnection() call settles: sequelize.close() resolved, or it rejected and
\* closeConnection rethrew; the callback exits the process either way
CloseConnectionSettles ==
  /\ proc.phase = "running"
  /\ shut.dbRunning > 0
  /\ \E closed \in BOOLEAN :
       /\ shut' = [shut EXCEPT !.dbRunning = @ - 1,
                               !.dbResult = IF closed THEN "closed" ELSE "threw",
                               !.exitVia = "close"]
       /\ proc' = Exit(proc, ShutdownExitCode(closed))
  /\ UNCHANGED <<authVars, store, reqVars, production, history, limits, conn, https>>

\* a 30 second timer fires: process.exit(1)
ForceExit ==
  /\ proc.phase = "running"
  /\ shut.timers > 0
  /\ shut' = [shut EXCEPT !.exitVia = "timer"]
  /\ proc' = Exit(proc, 1)
  /\ UNCHANGED <<authVars, store, reqVars, production, history, limits, conn, https>>

NextShutdown ==
  \/ Trigger
  \/ ServerCloses
  \/ CloseCallback
  \/ CloseConnectionSettles
  \/ ForceExit

SpecShutdown == Init /\ [][NextShutdown]_vars

\* an armed timer fires as long as the process is alive
SpecShutdownFair == Init /\ [][NextShutdown]_vars /\ WF_vars(ForceExit)

(***************************************************************************)
(* The middleware in front of the routes: HTTPS enforcement, the session    *)
(* middleware with its PostgreSQL store, the health router.                 *)
(***************************************************************************)
\* Boolean(forceHttpsRedirect && httpsEnabled)
EnforceHttps(cfg) == cfg.force /\ cfg.enabled

\* req.protocol under 'trust proxy': https on an encrypted connection, else the
\* X-Forwarded-Proto header ("" is absent), else http
ReqProtocol(r) ==
  IF r.encrypted THEN "https" ELSE IF r.xfp # "" THEN r.xfp ELSE "http"

\* the enforcement middleware looking at the connection only
EffectiveProtoMutConnectionOnly(r) == IF r.encrypted THEN "https" ELSE "http"

\* req.headers['x-forwarded-proto'] || (req.connection?.encrypted ? 'https' : req.protocol)
EffectiveProto(r) ==
  IF r.xfp # "" THEN r.xfp ELSE IF r.encrypted THEN "https" ELSE ReqProtocol(r)

HostRequired == [sent |-> TRUE, status |-> 400, kind |-> "text", text |-> "Host header is required"]

\* res.redirect(`https://${req.headers.host}${req.originalUrl}`)
HttpsRedirect(r) ==
  [sent |-> TRUE, status |-> 302, kind |-> "redirect", location |-> <<"https://", r.host, r.route>>]

\* the enforcement middleware: next(), or the response it sends
enforceHttpsMiddleware(r) ==
  IF EffectiveProto(r) = "https" THEN [next |-> TRUE]
  ELSE IF r.host = "" THEN [next |-> FALSE, res |-> HostRequired]
  ELSE [next |-> FALSE, res |-> HttpsRedirect(r)]

\* the requests that can reach the application: scheme is what the client used. A
\* direct client speaks the protocol of the server (createHttpsServer or
\* createHttpServer) and sends any X-Forwarded-Proto it likes; a reverse proxy
\* connects with the protocol of the server and sets X-Forwarded-Proto to the scheme
\* the client used. cookie: the request carries a signed session cookie; dbUp: the
\* database answers during the request
WebRequests(cfg) ==
  { [active |-> TRUE, route |-> route, via |-> "direct",
     scheme |-> IF cfg.enabled THEN "https" ELSE "http",
     encrypted |-> cfg.enabled, xfp |-> header, host |-> host,
     cookie |-> cookie, dbUp |-> dbUp] :
      route \in {"/health", "/ready", "/live", "/api/stats", "/dashboard"},
      header \in {"", "http", "https"}, host \in {"", "example.org"},
      cookie \in BOOLEAN, dbUp \in BOOLEAN }
  \cup
  { [active |-> TRUE, route |-> route, via |-> "proxy",
     scheme |-> scheme,
     encrypted |-> cfg.enabled, xfp |-> scheme, host |-> host,
     cookie |-> cookie, dbUp |-> dbUp] :
      route \in {"/health", "/ready", "/live", "/api/stats", "/dashboard"},
      scheme \in {"http", "https"}, host \in {"", "example.org"},
      cookie \in BOOLEAN, dbUp \in BOOLEAN }

\* the error the session store hands to next when the database is unreachable
SessionStoreError ==
  Err(0, "connect ECONNREFUSED", JsString("Error: connect ECONNREFUSED at ..."), JsUndefined, NoDb)

\* healthCheck(): never rejects
healthCheck(dbUp) ==
  IF dbUp THEN [status |-> "healthy", message |-> "Database connection is active"]
  ELSE [status |-> "unhealthy", message |-> "connect ECONNREFUSED"]

\* the handlers of the health router: /health, /ready, /live
HealthHandler(route, dbUp) ==
  LET dbHealth == healthCheck(dbUp)
  IN IF route = "/health"
     THEN LET status == IF dbHealth.status = "healthy" THEN "ok" ELSE "degraded"
          IN [sent |-> TRUE, status |-> IF status = "ok" THEN 200 ELSE 503, kind |-> "json",
              health |-> [status |-> status, database |-> dbHealth]]
     ELSE IF route = "/ready"
     THEN (IF dbHealth.status = "healthy"
           THEN [sent |-> TRUE, status |-> 200, kind |-> "json", health |-> [ready |-> TRUE]]
           ELSE [sent |-> TRUE, status |-> 503, kind |-> "json",
                 health |-> [ready |-> FALSE, reason |-> dbHealth.message]])
     ELSE [sent |-> TRUE, status |-> 200, kind |-> "json", health |-> [alive |-> TRUE]]

HealthRoutes == {"/health", "/ready", "/live"}

\* the request went on to the middleware and handlers of its own route
Reached(route) == [sent |-> FALSE, reached |-> route]

\* a request arrives at the first middleware
ArriveWeb ==
  /\ pc = "idle"
  /\ proc.listening
  /\ \E r \in WebRequests(https) : req' = r
  /\ pc' = "https"
  /\ UNCHANGED <<authVars, store, guard, queryLog, locals, response, failure, sysVars>>

\* if (enforceHttps) app.use(...): the first middleware when enforcement is on
HttpsStep ==
  /\ pc = "https"
  /\ LET out == IF EnforceHttps(https) THEN enforceHttpsMiddleware(req) ELSE [next |-> TRUE]
     IN IF out.next
        THEN pc' = "session" /\ response' = response
        ELSE pc' = "done" /\ response' = out.res
  /\ UNCHANGED <<authVars, store, req, guard, queryLog, locals, failure, sysVars>>

\* app.use(session(sessionConfig)): a request with a session cookie has its session
\* read from the PostgreSQL store; a store error goes to next(err) and errorHandler
SessionStep ==
  /\ pc = "session"
  /\ IF req.cookie /\ ~req.dbUp
     THEN /\ failure' = [failed |-> TRUE, at |-> "session", err |-> SessionStoreError]
          /\ response' = errorHandler(SessionStoreError, production)
          /\ pc' = "done"
     ELSE /\ failure' = failure
          /\ response' = response
          /\ pc' = "dispatch"
  /\ UNCHANGED <<authVars, store, req, guard, queryLog, locals, sysVars>>

\* app.use('/', healthRouter): a health route is answered by its handler
DispatchHealth ==
  /\ pc = "dispatch"
  /\ req.route \in HealthRoutes
  /\ response' = HealthHandler(req.route, req.dbUp)
  /\ pc' = "done"
  /\ UNCHANGED <<authVars, store, req, guard, queryLog, locals, failure, sysVars>>

\* any other route goes on to its own middleware and handler
DispatchRoute ==
  /\ pc = "dispatch"
  /\ req.route \notin HealthRoutes
  /\ response' = Reached(req.route)
  /\ pc' = "done"
  /\ UNCHANGED <<authVars, store, req, guard, queryLog, locals, failure, sysVars>>

\* the process serving under every HTTPS configuration
InitWeb ==
  /\ InitAuth
  /\ store = <<>>
  /\ Idle
  /\ production \in BOOLEAN
  /\ history = NoHistory
  /\ proc = Serving
  /\ limits = NoLimits
  /\ conn = NoConn
  /\ shut = NoShutdown
  /\ https \in [enabled : BOOLEAN, force : BOOLEAN]

NextWeb ==
  \/ ArriveWeb
  \/ HttpsStep
  \/ SessionStep
  \/ DispatchHealth
  \/ DispatchRoute
  \/ Finish

SpecWeb == InitWeb /\ [][NextWeb]_vars

\* GET /api/stats over every small store
Next == DoIngest \/ ArriveStats \/ RequireAuth \/ StatsQueries \/ QueryFails \/ Finish

Spec == Init /\ [][Next]_vars

\* requests that end in the error handler: failing queries and unknown paths
NextError ==
  \/ DoIngest
  \/ ArriveStats
  \/ ArriveUnknown
  \/ RequireAuth
  \/ StatsQueries
  \/ QueryFails
  \/ NotFoundHandler
  \/ Finish

SpecError == Init /\ [][NextError]_vars

\* consecutive GET /api/stats requests, each compared with the one before
NextTwice == DoIngest \/ ArriveStats \/ RequireAuth \/ StatsQueries \/ FinishRemember

SpecTwice == Init /\ [][NextTwice]_vars

\* both guarded routes with every session, over the empty store
NextGate == ArriveAny \/ RequireAuth \/ RequireAuthWeb \/ StatsQueries \/ DashboardPage \/ Finish

SpecGate == Init /\ [][NextGate]_vars

(***************************************************************************)
(* Larger stores for the recent queries: n rows whose created_at follows   *)
(* a shape.                                                                *)
(***************************************************************************)
Shapes == {"ascending", "descending", "pairs", "someNull", "days"}

ShapeTs(shape, i, n) ==
  IF shape = "ascending" THEN Ts(1, i)
  ELSE IF shape = "descending" THEN Ts(1, n + 1 - i)
  ELSE IF shape = "pairs" THEN Ts(1, (i + 1) \div 2)
  ELSE IF shape = "someNull" THEN (IF i % 5 = 0 THEN NullTs ELSE Ts(1, i))
  ELSE Ts(1 + (i % 3), i \div 3)

ShapeStore(shape, n) ==
  [i \in 1..n |-> Row(i, "k1", "job", IF i % 2 = 0 THEN "web" ELSE NullText, ShapeTs(shape, i, n))]

InitRecent ==
  /\ InitAuth
  /\ Idle
  /\ InitSys
  /\ \E n \in 0..MaxRecent, shape \in Shapes : store = ShapeStore(shape, n)

NextRecent == ArriveStats \/ RequireAuth \/ StatsQueries \/ Finish

SpecRecent == InitRecent /\ [][NextRecent]_vars

(***************************************************************************)
(* Inserts by other connections during a request.                          *)
(***************************************************************************)
\* the field values of the rows other connections insert
ConcurrentInputs ==
  { <<"kc", "job", "web", Ts(2, 0)>>,
    <<"kc", NullText, NullText, NullTs>> }

\* another connection commits an INSERT, at any point of a request or between requests
ConcurrentInsert ==
  /\ Cardinality({r \in Rows(store) : r.keyword = "kc"}) < MaxWrites
  /\ \E f \in ConcurrentInputs : store' = InsertRow(store, f)
  /\ UNCHANGED <<authVars, reqVars, sysVars>>

\* the stores a request may start from
InitConcurrent ==
  /\ InitAuth
  /\ Idle
  /\ InitSys
  /\ \E n \in 0..MaxRecent, shape \in {"ascending"} : store = ShapeStore(shape, n)

\* GET /api/stats while rows are being inserted
NextConcurrent == ConcurrentInsert \/ ArriveStats \/ RequireAuth \/ StatsQueries \/ Finish

SpecConcurrent == InitConcurrent /\ [][NextConcurrent]_vars

(***************************************************************************)
(* Properties.                                                             *)
(***************************************************************************)
\* a session carries a recognized marker: adminUser, adminjs or passport.user is truthy
HasMarker(session) ==
  /\ session.kind = "object"
  /\ \/ session.adminUser \in {"true", "str", "object"}
     \/ session.adminjs \in {"true", "str", "object"}
     \/ /\ session.passport.kind = "object"
        /\ session.passport.user \in {"true", "str", "object"}

\* the stats handler answered with a snapshot
SnapshotSent == pc = "done" /\ response.sent /\ response.status = 200 /\ response.kind = "json"

\* the number of rows of the store satisfying a predicate on one column
CountWhere(column, value) == Cardinality({r \in Rows(store) : r[column] = value})

\* C1: with exactly one identity (e, p) configured, authenticate(e', p') returns
\* {email: e, role: "admin"} when e' = e, p' = p and the verification did not fail
\* internally, and null for every other pair.
C1_AuthenticateMatchesConfigured ==
  (authCall.called /\ Len(authCall.configured) = 1) =>
    LET c == authCall.configured[1]
    IN IF authCall.email = c.email /\ authCall.password = c.password /\ ~authCall.fault
       THEN authCall.result = [match |-> TRUE, email |-> c.email, role |-> "admin"]
       ELSE authCall.result = NoMatch

C1_Witness ==
  /\ authCall.called
  /\ Len(authCall.configured) = 1
  /\ authCall.result # NoMatch

\* C2: a request to /api/stats whose session carries no marker has no query issued
\* and no handler response; queries are issued only after the guard called next.
C2_NoQueryBeforeAdmission ==
  /\ (req.active /\ ~HasMarker(req.session)) => (queryLog = <<>> /\ response = NoResponse)
  /\ queryLog # <<>> => (guard.ran /\ guard.next = 1)

C2_Witness ==
  /\ pc = "done"
  /\ Len(store) > 0
  /\ ~HasMarker(req.session)
  /\ guard.ran
  /\ guard.res = Unauthorized

\* C3: checkAuth never throws, returns false without a session, and returns true
\* exactly for the sessions that carry a recognized marker with a truthy value.
C3_CheckAuthTotal ==
  guard.ran =>
    /\ guard.check # "throw"
    /\ (req.session.kind \in {"undefined", "null"} => guard.check = "false")
    /\ (guard.check = "true" <=> HasMarker(req.session))

C3_Witness ==
  /\ guard.ran
  /\ req.session.kind = "object"
  /\ req.session.passport.kind = "object"
  /\ req.session.passport.user = "undefined"
  /\ guard.check = "false"

\* C4: both guards admit exactly the sessions with a marker; an admitting guard
\* calls next once and sends nothing, a rejecting guard never calls next and sends
\* 401 {error: "Unauthorized"} (API) or a redirect to /admin/login (page).
C4_GuardsDoOneThing ==
  guard.ran =>
    IF HasMarker(req.session)
    THEN guard.next = 1 /\ guard.res = NoResponse
    ELSE /\ guard.next = 0
         /\ guard.res = IF req.route = "/api/stats"
                        THEN [sent |-> TRUE, status |-> 401, kind |-> "json", error |-> "Unauthorized"]
                        ELSE [sent |-> TRUE, status |-> 302, kind |-> "redirect", location |-> "/admin/login"]

C4_Witness ==
  /\ guard.ran
  /\ req.route = "/dashboard"
  /\ ~HasMarker(req.session)
  /\ guard.next = 0
  /\ guard.res.sent

\* C5: after two successful initializations (e1, p1) then (e2, p2), authenticate
\* succeeds only for (e2, p2).
C5_ReinitializeOverwrites ==
  (authCall.called /\ Len(authCall.configured) = 2 /\ ~authCall.fault) =>
    LET c == authCall.configured[2]
    IN authCall.result # NoMatch <=> (authCall.email = c.email /\ authCall.password = c.password)

\* C6: platformBreakdown has exactly one key per distinct non-null platform_name of
\* the store, mapped to the number of rows with that value.
C6_PlatformBreakdownExact ==
  SnapshotSent =>
    LET pb == response.body.data.platformBreakdown
    IN /\ ObjectKeys(pb) = {r.platform_name : r \in Rows(store)} \ {NullText}
       /\ \A k \in ObjectKeys(pb) : ObjectValue(pb, k) = CountWhere("platform_name", k)

\* C7: searchTypeBreakdown maps every search_type label of the store to the number
\* of rows carrying it, counts the rows without search_type under "Unknown", and
\* leaves no row uncounted.
C7_SearchTypeBreakdownExact ==
  SnapshotSent =>
    LET sb == response.body.data.searchTypeBreakdown
        labels == {r.search_type : r \in Rows(store)}
    IN /\ ObjectKeys(sb) = (labels \ {NullText}) \cup (IF NullText \in labels THEN {"Unknown"} ELSE {})
       /\ \A k \in ObjectKeys(sb) :
            ObjectValue(sb, k) = CountWhere("search_type", k)
                                   + (IF k = "Unknown" THEN CountWhere("search_type", NullText) ELSE 0)

\* C8: over the empty store the snapshot has total 0, a date range of two nulls, no
\* recent queries and three empty mappings.
C8_EmptyStoreSnapshot ==
  (SnapshotSent /\ store = <<>>) =>
    LET d == response.body.data
    IN /\ d.total = 0
       /\ d.dateRange = [earliest |-> JsNull, latest |-> JsNull]
       /\ d.recentQueries = <<>>
       /\ d.searchTypeBreakdown = <<>>
       /\ d.platformBreakdown = <<>>
       /\ d.timelineData = <<>>

C8_Witness == SnapshotSent /\ store = <<>>

\* the created_at of a recentQueries entry as a timestamp
EntryTs(e) == IF e.created_at = JsNull THEN NullTs ELSE e.created_at.date

\* C9: recentQueries has min(10, total) entries of distinct rows, in non-increasing
\* created_at order (the store's order, in which NULL is the largest value), and no
\* row left out has a created_at larger than one of an entry.
C9_RecentQueriesAreTheLatest ==
  SnapshotSent =>
    LET d == response.body.data
        rq == d.recentQueries
        ids == {rq[i].id.number : i \in 1..Len(rq)}
    IN /\ Len(rq) = IF d.total < 10 THEN d.total ELSE 10
       /\ Cardinality(ids) = Len(rq)
       /\ \A i, j \in 1..Len(rq) : i < j => ~TsGreater(EntryTs(rq[j]), EntryTs(rq[i]))
       /\ \A r \in Rows(store) : r.id \notin ids =>
            \A i \in 1..Len(rq) : ~TsGreater(r.created_at, EntryTs(rq[i]))

C9_Witness ==
  /\ SnapshotSent
  /\ Len(store) > 10
  /\ Len(response.body.data.recentQueries) = 10
  /\ \E r \in Rows(store) : r.created_at.null

\* C10: every recentQueries entry carries exactly id, keyword, search_type,
\* platform_name and created_at, each with the value stored for that row.
C10_RecentEntriesCarryStoredFields ==
  SnapshotSent =>
    LET rq == response.body.data.recentQueries
    IN \A i \in 1..Len(rq) :
         /\ DOMAIN rq[i] = {"id", "keyword", "search_type", "platform_name", "created_at"}
         /\ \E r \in Rows(store) :
              /\ rq[i].id = JsNumber(r.id)
              /\ rq[i].keyword = TextToJs(r.keyword)
              /\ rq[i].search_type = TextToJs(r.search_type)
              /\ rq[i].platform_name = TextToJs(r.platform_name)
              /\ rq[i].created_at = TsToJs(r.created_at)

\* C11: timelineData has exactly one key per calendar day on which a row was created,
\* mapped to the number of rows created that day, and no key that is not a calendar date.
C11_TimelinePerCalendarDay ==
  SnapshotSent =>
    LET td == response.body.data.timelineData
        dated == {r \in Rows(store) : ~r.created_at.null}
        Dates == {DayNames[d] : d \in 1..Len(DayNames)}
    IN /\ ObjectKeys(td) \subseteq Dates
       /\ ObjectKeys(td) = {DayNames[r.created_at.day] : r \in dated}
       /\ \A k \in ObjectKeys(td) :
            ObjectValue(td, k) = Cardinality({r \in dated : DayNames[r.created_at.day] = k})

\* a JavaScript object as a mapping, whatever the order of its keys
ObjectMap(obj) == [k \in ObjectKeys(obj) |-> ObjectValue(obj, k)]

\* the data of a snapshot with its mappings taken as mappings
Comparable(d) ==
  [total |-> d.total,
   searchTypeBreakdown |-> ObjectMap(d.searchTypeBreakdown),
   platformBreakdown |-> ObjectMap(d.platformBreakdown),
   timelineData |-> ObjectMap(d.timelineData),
   dateRange |-> d.dateRange,
   recentQueries |-> d.recentQueries]

\* C12: two snapshots with no write to the store between or during them carry the
\* same total, breakdowns, timeline, date range and recentQueries in the same order.
C12_SnapshotIdempotent ==
  (SnapshotSent /\ history.taken /\ history.store = store) =>
    Comparable(response.body.data) = Comparable(history.data)

\* C13: authenticate never raises an error: with no identity configured, with an
\* unknown email, and when the hash verification itself throws, it returns null.
C13_AuthenticateNeverRaises ==
  authCall.called =>
    /\ authCall.result # [raised |-> TRUE]
    /\ ( \/ authCall.configured = <<>>
         \/ \A i \in 1..Len(authCall.configured) : authCall.configured[i].email # authCall.email
         \/ authCall.verify = "throw" ) => authCall.result = [match |-> FALSE]

C13_Witness ==
  /\ authCall.called
  /\ authCall.verify = "throw"
  /\ authCall.configured # <<>>
  /\ authCall.result = [match |-> FALSE]

\* the admin identity of the environment is in adminUsers
IdentityEstablished ==
  \E i \in 1..Len(adminUsers) :
    /\ adminUsers[i].email = proc.env.email
    /\ \E s \in Salts : adminUsers[i].password = Argon2Hash(s, proc.env.password)

\* C14: the server listens, and a request is accepted, only after initializeAdminUser
\* has stored the admin identity; when the email or password is missing, or
\* initializeAdminUser threw, the server is not listening and no request is accepted,
\* and once startup has acted on it the process has exited with a non-zero code
C14_ListenOnlyAfterIdentity ==
  /\ (proc.listening \/ req.active) => IdentityEstablished
  /\ (proc.env.email = "" \/ proc.env.password = "" \/ \E i \in 1..Len(initLog) : initLog[i].threw) =>
       /\ ~proc.listening
       /\ ~req.active
       /\ proc.phase # "load" => (proc.exited /\ proc.exitCode # 0)

C14_Witness ==
  /\ proc.listening
  /\ req.active
  /\ IdentityEstablished
  /\ Len(initLog) = 1

\* initializeAdminUser threw during startup and the process is gone
C14_FailureReached ==
  /\ initLog # <<>>
  /\ initLog[1].threw
  /\ proc.exited
  /\ proc.exitCode = 1

\* C15: an initializeAdminUser call whose email or password is empty or unset throws and
\* leaves adminUsers as it was; as long as every call made was of that kind, no identity
\* is configured and authenticate returns no match
C15_InitializeRejectsMissingCredentials ==
  /\ \A i \in 1..Len(initLog) :
       (initLog[i].email = "" \/ initLog[i].password = "") =>
         (initLog[i].threw /\ ~initLog[i].stored)
  /\ (\A i \in 1..Len(initLog) : initLog[i].email = "" \/ initLog[i].password = "") =>
       adminUsers = <<>>
  /\ (authCall.called /\ \A i \in 1..Len(authCall.log) :
                           authCall.log[i].email = "" \/ authCall.log[i].password = "") =>
       authCall.result = NoMatch

C15_Witness ==
  /\ authCall.called
  /\ authCall.log # <<>>
  /\ \A i \in 1..Len(authCall.log) : authCall.log[i].threw
  /\ authCall.email = authCall.log[1].email
  /\ authCall.password = authCall.log[1].password
  /\ authCall.result = NoMatch

\* a query of the current /api/stats request failed
QueryFailed == failure.failed /\ \E k \in 1..Len(QueryOrder) : QueryOrder[k] = failure.at

\* C16: when one of the six queries of a /api/stats request fails, the request is over
\* with an error response (status 400 or more, no success body and so no snapshot),
\* and the queries issued are the program-order queries up to the failed one, each
\* once: the failed query is not issued again and none after it is issued
C16_QueryFailureEndsRequest ==
  QueryFailed =>
    /\ pc = "done"
    /\ response.sent
    /\ response.status >= 400
    /\ "body" \notin DOMAIN response
    /\ "errorBody" \in DOMAIN response
    /\ \E k \in 1..Len(QueryOrder) :
         /\ QueryOrder[k] = failure.at
         /\ queryLog = SubSeq(QueryOrder, 1, k)

C16_Witness ==
  /\ QueryFailed
  /\ failure.at = "timeline"
  /\ Len(store) > 0
  /\ response.sent
  /\ queryLog = <<"count", "searchType", "platform", "timeline">>

\* an error response has been sent for the current request
ErrorSent == pc = "done" /\ failure.failed /\ response.sent /\ "errorBody" \in DOMAIN response

\* the property of an error body, undefined when the body lacks it
BodyField(b, f) == IF f \in DOMAIN b THEN b[f] ELSE JsUndefined

\* C17: in production the error response carries no stack, details, dbMessage, dbCode,
\* dbDetail or dbHint, and for an error without a status the status is 500 and the
\* message is "Internal Server Error"; outside production the message is the error's
\* own (the generic one only when the error has none) and the stack, the details and,
\* with a driver error, the four database fields are sent with the error's values
C17_ProductionHidesInternals ==
  ErrorSent =>
    LET b == response.errorBody
        e == failure.err
    IN /\ production =>
            /\ DOMAIN b \cap {"stack", "details", "dbMessage", "dbCode", "dbDetail", "dbHint"} = {}
            /\ e.status = 0 =>
                 (response.status = 500 /\ b.message = JsString("Internal Server Error"))
       /\ ~production =>
            /\ b.message = JsString(IF e.message = "" THEN "Internal Server Error" ELSE e.message)
            /\ BodyField(b, "stack") = e.stack
            /\ BodyField(b, "details") = e.details
            /\ e.db.present =>
                 /\ BodyField(b, "dbMessage") = e.db.message
                 /\ BodyField(b, "dbCode") = e.db.code
                 /\ BodyField(b, "dbDetail") = e.db.detail
                 /\ BodyField(b, "dbHint") = e.db.hint

C17_Witness ==
  /\ ErrorSent
  /\ production
  /\ failure.err.status = 0
  /\ failure.err.db.present
  /\ failure.err.message # "Internal Server Error"
  /\ response.status = 500
  /\ response.errorBody.message = JsString("Internal Server Error")
  /\ DOMAIN response.errorBody = {"message", "status"}

\* C18: an authentication failure looks the same whatever caused it: against the
\* configured identity, authenticate with another email and authenticate with the
\* right email and another password both return the one no-match value, and a guard
\* that rejects answers with the response of its route whatever the session holds
C18_FailureIsUniform ==
  /\ (authCall.called /\ IdentityEstablished) =>
       /\ authCall.email # proc.env.email => authCall.result = NoMatch
       /\ (authCall.email = proc.env.email /\ authCall.password # proc.env.password) =>
            authCall.result = NoMatch
  /\ (guard.ran /\ guard.next = 0) =>
       guard.res = IF req.route = "/api/stats" THEN Unauthorized ELSE LoginRedirect

C18_Witness ==
  /\ authCall.called
  /\ IdentityEstablished
  /\ authCall.email = proc.env.email
  /\ authCall.password # proc.env.password
  /\ authCall.verify = "invalid"
  /\ authCall.result = NoMatch
  /\ guard.ran
  /\ guard.next = 0
  /\ req.session.kind = "object"

\* C19: once startup is over, no step (authenticate call, guard check, query or end
\* of a request) changes adminUsers, and no step changes the request, and so the
\* session, that is being handled
C19_IdentityReadOnlyAfterStartup ==
  [][proc.phase = "running" =>
       /\ adminUsers' = adminUsers
       /\ (req.active /\ req'.active) => req' = req]_vars

C19_Witness ==
  /\ proc.phase = "running"
  /\ authCall.called
  /\ authCall.verify = "valid"
  /\ guard.ran
  /\ queryLog # <<>>
  /\ Len(adminUsers) = 1

\* C20: rate limiting protects the API and the login: a request under /api that
\* arrives after the maximum of the window was reached is answered 429 with no guard
\* run and no query issued, and a login attempt made after five failed attempts in
\* the window is rejected
C20_RateLimitingProtectsBoth ==
  /\ (req.active /\ pc # "limiter" /\ limits.apiHits > ApiLimiterMax) =>
       (response = TooManyRequests /\ ~guard.ran /\ queryLog = <<>>)
  /\ (limits.lastLogin.attempted /\ limits.lastLogin.priorFailures >= AuthLimitMax) =>
       limits.lastLogin.rejected

\* the part of C20 about /api
C20_ApiPart ==
  (req.active /\ pc # "limiter" /\ limits.apiHits > ApiLimiterMax) =>
    (response = TooManyRequests /\ ~guard.ran /\ queryLog = <<>>)

C20_ApiLimited == req.active /\ pc = "done" /\ response = TooManyRequests

\* the sum of the values of a mapping
RECURSIVE SumValues(_)
SumValues(obj) == IF obj = <<>> THEN 0 ELSE Head(obj).value + SumValues(Tail(obj))

\* C21: with no write during the request, the values of searchTypeBreakdown sum to
\* total, whatever mix of absent, empty and "Unknown" search types the store holds
C21_SearchTypeSumsToTotal ==
  SnapshotSent =>
    SumValues(response.body.data.searchTypeBreakdown) = response.body.data.total

Min(a, b) == IF a < b THEN a ELSE b

\* C22: with rows only inserted while a request runs, the snapshot's total is at most
\* the sum of its timelineData values, and recentQueries has at least min(10, total)
\* entries
C22_SnapshotMonotoneUnderInserts ==
  SnapshotSent =>
    LET d == response.body.data
    IN /\ d.total <= SumValues(d.timelineData)
       /\ Len(d.recentQueries) >= Min(10, d.total)

C22_Witness ==
  /\ SnapshotSent
  /\ response.body.data.total < SumValues(response.body.data.timelineData)
  /\ response.body.data.total < Len(response.body.data.recentQueries)
  /\ Len(response.body.data.recentQueries) = 10
  /\ "null" \in ObjectKeys(response.body.data.timelineData)

\* the attempts of the testConnection call, in order
ConnAttempts == SelectSeq(conn.log, LAMBDA e : e.kind = "attempt")

\* the testConnection call has settled
ConnSettled == conn.state \in {"returned", "threw"}

\* C23: a testConnection(retries, delay) call with retries >= 1 makes at most retries
\* attempts, numbered from 1, with one wait of delay between two attempts and none
\* after the last; no attempt follows a successful one; it returns true exactly at a
\* successful attempt; and it throws exactly after retries failed attempts, the error
\* being that of the last attempt
C23_TestConnectionRetries ==
  (conn.state # "idle" /\ conn.retries >= 1) =>
    /\ Len(ConnAttempts) <= conn.retries
    /\ \A i \in 1..Len(conn.log) :
         IF i % 2 = 1
         THEN conn.log[i].kind = "attempt" /\ conn.log[i].n = (i + 1) \div 2
         ELSE conn.log[i].kind = "wait" /\ conn.log[i].ms = conn.delay
    /\ \A i \in 1..(Len(conn.log) - 1) :
         conn.log[i].kind = "attempt" => conn.log[i].outcome # "ok"
    /\ ConnSettled =>
         /\ conn.log # <<>>
         /\ conn.log[Len(conn.log)].kind = "attempt"
         /\ IF conn.log[Len(conn.log)].outcome = "ok"
            THEN conn.state = "returned" /\ conn.value = [boolean |-> TRUE]
            ELSE /\ conn.state = "threw"
                 /\ Len(ConnAttempts) = conn.retries
                 /\ conn.value = ConnError(conn.retries, conn.log[Len(conn.log)].outcome)

C23_Witness ==
  /\ conn.state = "threw"
  /\ conn.retries = 3
  /\ Len(conn.log) = 5
  /\ conn.value = ConnError(3, "version")

\* C24: for every retries, a settled testConnection call either returned true after a
\* successful attempt or threw; it never returns without a successful attempt
C24_TestConnectionTwoOutcomes ==
  ConnSettled =>
    \/ conn.state = "threw"
    \/ /\ conn.state = "returned"
       /\ conn.value = [boolean |-> TRUE]
       /\ \E i \in 1..Len(conn.log) : conn.log[i].kind = "attempt" /\ conn.log[i].outcome = "ok"

\* C25: closeConnection is called only when the server has stopped accepting
\* connections and has finished closing; the process exits with 0 only after
\* closeConnection succeeded, and when closeConnection threw the exit code is 1
C25_ShutdownOrderAndExitCode ==
  /\ shut.dbCloseCalls > 0 => (shut.serverClosed /\ ~proc.listening)
  /\ (proc.exited /\ proc.exitCode = 0) => shut.dbResult = "closed"
  /\ shut.dbResult = "threw" => (proc.exited /\ proc.exitCode = 1)

C25_Witness ==
  /\ proc.exited
  /\ proc.exitCode = 1
  /\ shut.exitVia = "close"
  /\ shut.dbResult = "threw"
  /\ shut.serverClosed

C25_CleanExit == proc.exited /\ proc.exitCode = 0 /\ shut.dbResult = "closed"

\* C26: once SIGTERM or SIGINT has been received the process eventually exits, and an
\* exit through the forced-shutdown timer has exit code 1
C26_ShutdownTerminates ==
  /\ (shut.triggers # <<>> /\ shut.triggers[1] \in {"SIGTERM", "SIGINT"}) ~> proc.exited
  /\ [](shut.exitVia = "timer" => (proc.exited /\ proc.exitCode = 1))

C26_Witness ==
  /\ shut.triggers # <<>>
  /\ shut.triggers[1] = "SIGTERM"
  /\ ~shut.serverClosed
  /\ shut.exitVia = "timer"
  /\ proc.exited
  /\ proc.exitCode = 1

\* C27: whatever triggers arrive, server.close and closeConnection are each started
\* at most once
C27_CloseStartedAtMostOnce == shut.closeCalls <= 1 /\ shut.dbCloseCalls <= 1

\* C28: a shutdown that an uncaught exception or an unhandled rejection triggered
\* does not end with exit code 0
C28_ExceptionNeverExitsZero ==
  (proc.exited /\ proc.exitCode = 0 /\ shut.triggers # <<>>) =>
    shut.triggers[1] \in {"SIGTERM", "SIGINT"}

\* a health request has been answered, and not by the HTTPS enforcement
HealthAnswered ==
  /\ pc = "done"
  /\ req.active
  /\ req.route \in HealthRoutes
  /\ ~(EnforceHttps(https) /\ EffectiveProto(req) # "https")

\* C29: a health request needs no session and never ends in a database error: /health
\* answers 200 with status "ok" when the database check is healthy and 503 otherwise,
\* /ready answers 200 when it is healthy and 503 otherwise, /live answers 200
C29_HealthEndpoints ==
  HealthAnswered =>
    /\ ~failure.failed
    /\ req.route = "/health" =>
         IF req.dbUp THEN response.status = 200 /\ response.health.status = "ok"
         ELSE response.status = 503
    /\ req.route = "/ready" => response.status = (IF req.dbUp THEN 200 ELSE 503)
    /\ req.route = "/live" => response.status = 200

\* the part of C29 about the handlers: the requests that reach the health router
C29_HandlersPart ==
  (HealthAnswered /\ ~failure.failed) =>
    /\ req.route = "/health" =>
         IF req.dbUp THEN response.status = 200 /\ response.health.status = "ok"
         ELSE response.status = 503
    /\ req.route = "/ready" => response.status = (IF req.dbUp THEN 200 ELSE 503)
    /\ req.route = "/live" => response.status = 200

C29_LiveWhileDown ==
  HealthAnswered /\ ~failure.failed /\ req.route = "/live" /\ ~req.dbUp /\ response.status = 200

\* C30: enforcement is on exactly when HTTPS_ENABLED and FORCE_HTTPS_REDIRECT are both
\* true; when it is on, a request the client did not make over HTTPS goes on to no
\* route: it is answered 400 without a Host header and otherwise redirected to
\* https://host/url; when it is off, no request is redirected or refused by it
C30_HttpsEnforcement ==
  /\ EnforceHttps(https) = (https.enabled = TRUE /\ https.force = TRUE)
  /\ (req.active /\ "scheme" \in DOMAIN req /\ pc # "https") =>
       /\ (EnforceHttps(https) /\ req.scheme # "https") =>
            /\ pc = "done"
            /\ response = IF req.host = "" THEN HostRequired
                           ELSE [sent |-> TRUE, status |-> 302, kind |-> "redirect",
                                 location |-> <<"https://", req.host, req.route>>]
       /\ ~EnforceHttps(https) =>
            (response.sent => (response.kind # "redirect" /\ response # HostRequired))

C30_Witness ==
  /\ EnforceHttps(https)
  /\ req.active
  /\ pc = "done"
  /\ req.route = "/health"
  /\ req.scheme = "http"
  /\ req.host # ""
  /\ response.status = 302

====
